---- MODULE Spec2Model ----
(***************************************************************************)
(* The tool invocation pipeline of the Playwright MCP server:              *)
(* createConnection (tool selection, listTools, callTool with the modal    *)
(* state gate and the error boundary), the browser_take_screenshot tool,   *)
(* and the executor / session they call into.                              *)
(*                                                                         *)
(* Optional values (undefined in the source) are sequences of length 0 or  *)
(* 1: <<>> is undefined, <<v>> is the value v.                             *)
(***************************************************************************)
EXTENDS Integers, Sequences, FiniteSets, TLC

(***************************************************************************)
(* Bounds of the model.                                                    *)
(***************************************************************************)
\* deepest blocking-state stack the session holds
MaxModal == 2
\* callTool requests that may be in flight on the connection at once
MaxInFlight == 1

Range(s) == {s[i] : i \in DOMAIN s}

\* Array.prototype.includes
Includes(s, x) == \E i \in DOMAIN s : s[i] = x

\* Array.prototype.join
RECURSIVE Join(_, _)
Join(msgs, sep) ==
  IF Len(msgs) = 0 THEN ""
  ELSE IF Len(msgs) = 1 THEN msgs[1]
  ELSE msgs[1] \o sep \o Join(Tail(msgs), sep)

\* JavaScript truthiness of an optional string: !!v
Truthy(v) == v # <<>> /\ v[1] # ""

\* JavaScript truthiness of an optional boolean
TruthyFlag(v) == v # <<>> /\ v[1]

(***************************************************************************)
(* Tool definitions.                                                       *)
(***************************************************************************)
\* z.object({...}).refine(...) of browser_take_screenshot
screenshotSchema ==
  [ fields   |-> <<"raw", "filename", "fullPage", "element", "ref">>,
    required |-> <<"filename">>,
    refine   |-> <<"Both element and ref must be provided or neither.">> ]

\* the input schema of a tool that takes no required argument
emptySchema ==
  [ fields |-> <<>>, required |-> <<>>, refine |-> <<>> ]

\* defineTool({...}) of browser_take_screenshot
screenshot ==
  [ name |-> "browser_take_screenshot",
    title |-> "Take a screenshot",
    capability |-> "core",
    type |-> "readOnly",
    clearsModalState |-> <<>>,
    inputSchema |-> screenshotSchema,
    catalog |-> "snapshot" ]

click ==
  [ name |-> "browser_click",
    title |-> "Click",
    capability |-> "core",
    type |-> "destructive",
    clearsModalState |-> <<>>,
    inputSchema |-> emptySchema,
    catalog |-> "snapshot" ]

handleDialog ==
  [ name |-> "browser_handle_dialog",
    title |-> "Handle a dialog",
    capability |-> "core",
    type |-> "destructive",
    clearsModalState |-> <<"dialog">>,
    inputSchema |-> emptySchema,
    catalog |-> "snapshot" ]

uploadFile ==
  [ name |-> "browser_file_upload",
    title |-> "Upload files",
    capability |-> "files",
    type |-> "destructive",
    clearsModalState |-> <<"fileChooser">>,
    inputSchema |-> emptySchema,
    catalog |-> "snapshot" ]

screenCapture ==
  [ name |-> "browser_screen_capture",
    title |-> "Take a screenshot",
    capability |-> "core",
    type |-> "readOnly",
    clearsModalState |-> <<>>,
    inputSchema |-> emptySchema,
    catalog |-> "vision" ]

screenHandleDialog ==
  [ name |-> "browser_handle_dialog",
    title |-> "Handle a dialog",
    capability |-> "core",
    type |-> "destructive",
    clearsModalState |-> <<"dialog">>,
    inputSchema |-> emptySchema,
    catalog |-> "vision" ]

screenUploadFile ==
  [ name |-> "browser_file_upload",
    title |-> "Upload files",
    capability |-> "files",
    type |-> "destructive",
    clearsModalState |-> <<"fileChooser">>,
    inputSchema |-> emptySchema,
    catalog |-> "vision" ]

\* the two catalogs of tools.js, in declaration order
snapshotTools == << screenshot, click, handleDialog, uploadFile >>
visionTools   == << screenCapture, screenHandleDialog, screenUploadFile >>

\* capability names a configuration may list
CapabilityNames == {"files", "pdf"}

\* the kinds of blocking state the session knows
ModalKinds == {"dialog", "fileChooser"}

\* tool names a client may ask for
ToolNames ==
  {t.name : t \in Range(snapshotTools) \cup Range(visionTools)} \cup {"nonexistent"}

(***************************************************************************)
(* Tool Registry: the tools constant of createConnection.                  *)
(***************************************************************************)
\* const allTools = config.vision ? visionTools : snapshotTools
allToolsOf(cfg) == IF cfg.vision THEN visionTools ELSE snapshotTools

\* the filter without its 'core' clause
selectToolsListedOnly(cfg) ==
  IF cfg.capabilities # <<>> /\ Len(cfg.capabilities[1]) > 0
  THEN SelectSeq(allToolsOf(cfg),
         LAMBDA tool : Includes(cfg.capabilities[1], tool.capability))
  ELSE allToolsOf(cfg)

\* const tools = config.capabilities && config.capabilities.length > 0
\*   ? allTools.filter(...) : allTools
selectTools(cfg) ==
  IF cfg.capabilities # <<>> /\ Len(cfg.capabilities[1]) > 0
  THEN SelectSeq(allToolsOf(cfg),
         LAMBDA tool : tool.capability = "core"
                       \/ Includes(cfg.capabilities[1], tool.capability))
  ELSE allToolsOf(cfg)

\* every configuration drawn for createConnection
CapLists == {<<>>, <<"pdf">>, <<"pdf", "files">>}

Configs ==
  [ vision : BOOLEAN,
    capabilities : {<<>>} \cup {<<l>> : l \in CapLists},
    keepBrowserOpen : BOOLEAN ]

(***************************************************************************)
(* Session (external collaborator): blocking states and their rendering.   *)
(***************************************************************************)
\* a blocking-state entry of the given kind
ModalState(kind) ==
  [ type |-> kind,
    description |-> IF kind = "dialog" THEN "\"confirm\" dialog with message \"Sure?\""
                    ELSE "File chooser" ]

\* every stack the session may hold
Stacks ==
  UNION {[1..n -> {ModalState(k) : k \in ModalKinds}] : n \in 0..MaxModal}

\* context.modalStatesMarkdown(): one readable line per blocking state
modalStatesMarkdown(stack) ==
  [i \in DOMAIN stack |-> "- [" \o stack[i].description \o "]"]

\* the error a read of a session that lost its target raises
SessionError == [name |-> "Error", message |-> "Target page, context or browser has been closed"]

(***************************************************************************)
(* callTool: result shapes, lookup and the modal state gate.               *)
(***************************************************************************)
\* String(error): Error.prototype.toString
StringOf(e) ==
  IF e.message = "" THEN e.name ELSE e.name \o ": " \o e.message

\* const errorResult = (...messages) => ({content: [{type:'text', text: messages.join('\n')}], isError: true})
errorResult(messages) ==
  [ content |-> << [type |-> "text", text |-> Join(messages, "\n")] >>,
    isError |-> TRUE ]

\* a lookup in the whole catalog instead of the active set
findToolInCatalog(ts, name) ==
  LET all == snapshotTools \o visionTools
      hits == {i \in DOMAIN all : all[i].name = name}
  IN  IF hits = {} THEN <<>>
      ELSE << all[CHOOSE i \in hits : \A j \in hits : i <= j] >>

\* tools.find(tool => tool.schema.name === request.params.name)
findTool(ts, name) ==
  LET hits == {i \in DOMAIN ts : ts[i].name = name}
  IN  IF hits = {} THEN <<>>
      ELSE << ts[CHOOSE i \in hits : \A j \in hits : i <= j] >>

\* `Tool "${name}" not found`
notFoundMessage(name) == "Tool \"" \o name \o "\" not found"

\* context.modalStates().map(state => state.type)
modalStateTypes(stack) == [i \in DOMAIN stack |-> stack[i].type]

\* the first rejection taken only when no blocking state at all is present
needsAbsentStateWhenEmpty(tool, types) ==
  tool.clearsModalState # <<>> /\ Len(types) = 0

\* the first rejection taken also when a state of another kind is present
needsAbsentStateOrOther(tool, types) ==
  tool.clearsModalState # <<>>
  /\ \E i \in DOMAIN types \cup {0} : i = 0 \/ types[i] # tool.clearsModalState[1]

\* tool.clearsModalState && !modalStates.includes(tool.clearsModalState)
needsAbsentState(tool, types) ==
  tool.clearsModalState # <<>> /\ ~Includes(types, tool.clearsModalState[1])

\* the second rejection taken only from the second blocking state on
doesNotHandleSeveral(tool, types) ==
  tool.clearsModalState = <<>> /\ Len(types) > 1

\* !tool.clearsModalState && modalStates.length
doesNotHandleState(tool, types) ==
  tool.clearsModalState = <<>> /\ Len(types) > 0

\* the message of the first rejection
needsStateMessage(name) ==
  "The tool \"" \o name \o "\" can only be used when there is related modal state present."

\* the message of the second rejection
doesNotHandleMessage(name) ==
  "Tool \"" \o name \o "\" does not handle the modal state."

(***************************************************************************)
(* browser_take_screenshot: schema validation and handler.                 *)
(***************************************************************************)
\* the arguments of a call: every field of the screenshot schema, optional
NoArgs ==
  [ raw |-> <<>>, filename |-> <<>>, fullPage |-> <<>>, element |-> <<>>, ref |-> <<>> ]

\* the argument objects a client sends
ArgsSet ==
  { NoArgs,
    [NoArgs EXCEPT !.filename = <<"page.png">>],
    [NoArgs EXCEPT !.filename = <<"screenshot.png">>, !.raw = <<TRUE>>],
    [NoArgs EXCEPT !.filename = <<"page.png">>, !.element = <<"Submit button">>, !.ref = <<"e12">>],
    [NoArgs EXCEPT !.filename = <<"page.png">>, !.ref = <<"e12">>],
    [NoArgs EXCEPT !.filename = <<"page.png">>, !.element = <<"Submit button">>] }

\* the issues schema.parse(args) reports; <<>> when the arguments are valid.
\* The refinement runs only on an object that passed the field checks.
schemaIssuesOfFields(schema, args) ==
  LET missing == SelectSeq(schema.required, LAMBDA f : args[f] = <<>>)
  IN  [i \in DOMAIN missing |-> "Required: " \o missing[i]]

schemaIssues(schema, args) ==
  LET missing == SelectSeq(schema.required, LAMBDA f : args[f] = <<>>)
  IN  IF missing # <<>> THEN [i \in DOMAIN missing |-> "Required: " \o missing[i]]
      ELSE IF schema.refine # <<>> /\ (Truthy(args.element) # Truthy(args.ref))
           THEN schema.refine
           ELSE <<>>

\* the parsed object: fields the schema does not declare are stripped
parsedArgs(schema, args) ==
  [f \in DOMAIN args |-> IF Includes(schema.fields, f) THEN args[f] ELSE <<>>]

\* the error schema.parse raises
ZodError(issues) == [name |-> "ZodError", message |-> Join(issues, "; ")]

\* params.filename.includes('screenshot') || params.filename.includes('capture')
useStandardizedPath(filename) ==
  filename \in {"screenshot.png", "capture.png", "my-screenshot.jpeg"}

\* standardizedOutputFile(tab.page.url(), fileType)
standardizedOutputFile(fileType) == "/output/example-com." \o fileType

\* outputFile(context.config, params.filename)
outputFile(filename) == "/output/" \o filename

\* the ToolResult of the screenshot handler for validated params
screenshotResult(params) ==
  LET fileType == IF TruthyFlag(params.raw) THEN "png" ELSE "jpeg"
      fileName == IF useStandardizedPath(params.filename[1])
                  THEN standardizedOutputFile(fileType)
                  ELSE outputFile(params.filename[1])
      fullPage == TruthyFlag(params.fullPage)
      isElementScreenshot == Truthy(params.element) /\ Truthy(params.ref)
      locator == Truthy(params.ref)
      subject == IF isElementScreenshot THEN params.element[1]
                 ELSE IF fullPage THEN "full page" ELSE "viewport"
  IN  [ code |-> << "// Screenshot " \o subject \o " and save it as " \o fileName,
                    IF locator THEN "await page.locator(" \o params.ref[1] \o ").screenshot(" \o fileType \o ");"
                    ELSE "await page.screenshot(" \o fileType \o ");" >>,
        action |-> << IF locator THEN "locator.screenshot" ELSE "page.screenshot" >>,
        captureSnapshot |-> TRUE,
        waitForNetwork |-> FALSE,
        resultOverride |->
          << [content |-> << [type |-> "text", text |-> "Screenshot saved to: " \o fileName] >>] >> ]

\* context.currentTabOrDie() and tab.snapshotOrDie() of the screenshot handler
TabError == [name |-> "Error", message |-> "No current snapshot available. Capture a snapshot of navigate to a new location first."]

(***************************************************************************)
(* The other tools' handlers and the executor, context.run.                *)
(***************************************************************************)
\* what the deferred action of a tool raises
ActionFailure == [name |-> "TimeoutError", message |-> "Timeout 5000ms exceeded."]

\* a ToolResult of one of the remaining tools
ToolResult(tool, a, c, w, o) ==
  [ code |-> << "// " \o tool.title >>,
    action |-> IF a THEN <<"act">> ELSE <<>>,
    captureSnapshot |-> c,
    waitForNetwork |-> w,
    resultOverride |->
      IF o THEN << [content |-> << [type |-> "text", text |-> tool.title \o " done"] >>] >>
      ELSE <<>> ]

\* the ToolResults the handlers of the remaining tools return: browser_click
\* acts, captures and waits, or only acts, or only captures; the tools that
\* clear a blocking state act; browser_screen_capture answers with an override
genericResults(tool) ==
  CASE tool.name = "browser_click" ->
         { ToolResult(tool, TRUE, TRUE, TRUE, FALSE),
           ToolResult(tool, TRUE, FALSE, FALSE, FALSE),
           ToolResult(tool, FALSE, TRUE, FALSE, FALSE) }
    [] tool.name = "browser_handle_dialog" ->
         {ToolResult(tool, TRUE, FALSE, w, FALSE) : w \in BOOLEAN}
    [] tool.name = "browser_file_upload" ->
         {ToolResult(tool, TRUE, TRUE, FALSE, FALSE)}
    [] OTHER ->
         { ToolResult(tool, FALSE, FALSE, FALSE, TRUE),
           ToolResult(tool, TRUE, TRUE, FALSE, TRUE),
           ToolResult(tool, TRUE, FALSE, TRUE, TRUE),
           ToolResult(tool, FALSE, TRUE, TRUE, TRUE) }

\* tool.handle(context, params): the ToolResults the handler may return
handlerResults(tool, params) ==
  IF tool = screenshot THEN {screenshotResult(params)} ELSE genericResults(tool)

\* the errors the handler may raise
handlerErrors(tool) == {TabError}

\* the override returned only for a ToolResult that carries no action
returnsOverrideWithoutAction(tr) == tr.resultOverride # <<>> /\ tr.action = <<>>

\* step 3: a ToolResult with resultOverride is returned as it is
returnsOverride(tr) == tr.resultOverride # <<>>

\* step 4: the deferred action is run when there is one
runsAction(tr) == tr.action # <<>>

\* step 5: the snapshot is captured after the action
capturesSnapshotNever(tr) == FALSE

capturesSnapshot(tr) == tr.captureSnapshot

\* step 5: the executor awaits the network before it returns
waitsForNetwork(tr) == tr.waitForNetwork

\* step 6: the default success envelope
defaultResult(tr) ==
  [ content |-> << [type |-> "text", text |-> Join(tr.code, "\n")] >>, isError |-> FALSE ]

\* a resultOverride as the response of the call: {content}, isError undefined
overrideResult(tr) ==
  [ content |-> tr.resultOverride[1].content, isError |-> FALSE ]

(***************************************************************************)
(* State.                                                                  *)
(***************************************************************************)
VARIABLES
  config,   \* the FullConfig createConnection was called with
  tools,    \* the tools constant of createConnection: the active set
  session,  \* the Context: whether its target is readable, its blocking states
  req,      \* per request slot: the callTool in flight or just completed
  listed,   \* the first and the most recent listTools responses
  conn      \* the Connection: the position of close(), its transport, the teardown

vars == <<config, tools, session, req, listed, conn>>

Slots == 1..MaxInFlight

NoResult == [content |-> <<>>, isError |-> FALSE]

\* a slot with no request.  pc is the position of the async handler; name and
\* args are the request; entered says that context.run was called; tr is the
\* ToolResult the handler returned; the counters count what the executor
\* invoked; result, thrown and escaped are the outcome (thrown: the error
\* raised inside the call, escaped: it left the handler uncaught).
IdleReq ==
  [ pc |-> "idle", name |-> "", args |-> NoArgs, entered |-> FALSE, tr |-> <<>>,
    handlerCalls |-> 0, actionCalls |-> 0, snapshotCalls |-> 0, networkWaits |-> 0,
    result |-> NoResult, thrown |-> <<>>, escaped |-> FALSE ]

\* the async handler of request q returns `result`
Returned(q, result) == [q EXCEPT !.pc = "done", !.result = result]

\* the executor's value replaced by a status line
callToolReturnStatus(value) ==
  [value EXCEPT !.content = << [type |-> "text", text |-> "OK"] >>]

\* return await context.run(...): the value of the executor is the response
callToolReturn(value) == value

\* the catch block reporting error.message instead of String(error)
callToolCatchMessage(error) == errorResult(<<error.message>>)

\* catch (error) { return errorResult(String(error)); }
callToolCatch(error) == errorResult(<<StringOf(error)>>)

\* an error raised inside the try block
Caught(q, error) ==
  [q EXCEPT !.pc = "done", !.result = callToolCatch(error), !.thrown = <<error>>]

\* an error raised outside the try block rejects the handler's promise
Escaped(q, error) ==
  [q EXCEPT !.pc = "done", !.thrown = <<error>>, !.escaped = TRUE]

(***************************************************************************)
(* createConnection.                                                       *)
(***************************************************************************)
\* a connection on which close() was not called
OpenConn ==
  [ pc |-> "open", transport |-> "open", context |-> "open",
    serverCloseCalls |-> 0, contextCloseCalls |-> 0, error |-> <<>> ]

\* the state createConnection(cfg, ...) returns, serving the request slots S
\* on a session whose blocking states are `stack`
Created(cfg, S, stack) ==
  /\ config = cfg
  /\ tools = selectTools(cfg)
  /\ session = [ok |-> TRUE, modalStates |-> stack]
  /\ req = [r \in S |-> IdleReq]
  /\ listed = [first |-> <<>>, last |-> <<>>]
  /\ conn = OpenConn

\* keepBrowserOpen is read by close() alone: the connection that is never
\* closed is created with the default, false
Init ==
  \E cfg \in Configs : ~cfg.keepBrowserOpen /\ Created(cfg, Slots, <<>>)

(***************************************************************************)
(* listTools.                                                              *)
(***************************************************************************)
\* zodToJsonSchema(tool.schema.inputSchema)
zodToJsonSchema(schema) ==
  [ type |-> "object", properties |-> schema.fields, required |-> schema.required ]

\* one entry of the listTools response
listEntryDestructive(tool) ==
  [ name |-> tool.name,
    description |-> tool.title,
    inputSchema |-> zodToJsonSchema(tool.inputSchema),
    annotations |->
      [ title |-> tool.title,
        readOnlyHint |-> tool.type = "readOnly",
        destructiveHint |-> TRUE,
        openWorldHint |-> TRUE ] ]

listEntry(tool) ==
  [ name |-> tool.name,
    description |-> tool.title,
    inputSchema |-> zodToJsonSchema(tool.inputSchema),
    annotations |->
      [ title |-> tool.title,
        readOnlyHint |-> tool.type = "readOnly",
        destructiveHint |-> tool.type = "destructive",
        openWorldHint |-> TRUE ] ]

\* the discovery response built from the whole catalog of the mode
listToolsOfCatalog(ts) ==
  LET all == IF \E i \in DOMAIN ts : ts[i].catalog = "vision" THEN visionTools ELSE snapshotTools
  IN  [tools |-> [i \in DOMAIN all |-> listEntry(all[i])]]

\* the ListToolsRequestSchema handler
listTools(ts) == [tools |-> [i \in DOMAIN ts |-> listEntry(ts[i])]]

ListTools ==
  /\ conn.transport # "closed"
  /\ listed' = [ first |-> IF listed.first = <<>> THEN <<listTools(tools)>> ELSE listed.first,
                 last |-> <<listTools(tools)>> ]
  /\ UNCHANGED <<conn, config, tools, session, req>>

(***************************************************************************)
(* callTool: the CallToolRequestSchema handler up to its first await.      *)
(***************************************************************************)
\* context.run up to the handler: validation, then tool.handle is started
runStart(q, tool) ==
  LET issues == schemaIssues(tool.inputSchema, q.args)
      e == [q EXCEPT !.entered = TRUE]
  IN  IF issues # <<>>
      THEN Caught(e, ZodError(issues))
      ELSE [e EXCEPT !.pc = "handling", !.handlerCalls = 1]

\* the request after the synchronous part of the handler
callTool(ts, sess, name, args) ==
  LET found == findTool(ts, name)
      q == [IdleReq EXCEPT !.name = name]
  IN  IF found = <<>>
      THEN Returned(q, errorResult(<<notFoundMessage(name)>>))
      ELSE IF ~sess.ok
      THEN Escaped(q, SessionError)
      ELSE LET tool == found[1]
               modalStates == modalStateTypes(sess.modalStates)
           IN  IF needsAbsentState(tool, modalStates)
               THEN Returned(q, errorResult(<<needsStateMessage(name)>>
                                            \o modalStatesMarkdown(sess.modalStates)))
               ELSE IF doesNotHandleState(tool, modalStates)
               THEN Returned(q, errorResult(<<doesNotHandleMessage(name)>>
                                            \o modalStatesMarkdown(sess.modalStates)))
               ELSE runStart([q EXCEPT !.args = args], tool)

\* the argument objects sent to a tool: the tools other than the screenshot
\* declare no fields, so every object parses to the same value for them
ArgsFor(name) == IF name = screenshot.name THEN ArgsSet ELSE {NoArgs}

CallToolDismissing(r, name, args) ==
  /\ conn.transport # "closed"
  /\ req[r].pc = "idle"
  /\ req' = [req EXCEPT ![r] = callTool(tools, session, name, args)]
  /\ session' = IF req'[r].entered THEN session ELSE [session EXCEPT !.modalStates = <<>>]
  /\ UNCHANGED <<conn, config, tools, listed>>

CallTool(r, name, args) ==
  /\ conn.transport # "closed"
  /\ req[r].pc = "idle"
  /\ req' = [req EXCEPT ![r] = callTool(tools, session, name, args)]
  /\ UNCHANGED <<conn, config, tools, session, listed>>

(***************************************************************************)
(* context.run after the handler was started: the executor's awaits.       *)
(***************************************************************************)
\* the tool of a request that passed the lookup
toolOf(q) == findTool(tools, q.name)[1]

\* steps 5 and 6 for the request q, whose action (if any) is over
afterAction(q) ==
  IF capturesSnapshot(q.tr[1]) /\ q.snapshotCalls = 0
  THEN [q EXCEPT !.pc = "capturing", !.snapshotCalls = 1]
  ELSE IF waitsForNetwork(q.tr[1]) /\ q.networkWaits = 0
  THEN [q EXCEPT !.pc = "waiting", !.networkWaits = 1]
  ELSE Returned(q, callToolReturn(defaultResult(q.tr[1])))

\* steps 3 and 4 once the handler has returned tr
afterHandler(q, tr) ==
  IF returnsOverride(tr)
  THEN Returned([q EXCEPT !.tr = <<tr>>], callToolReturn(overrideResult(tr)))
  ELSE IF runsAction(tr)
  THEN [q EXCEPT !.pc = "acting", !.tr = <<tr>>, !.actionCalls = 1]
  ELSE afterAction([q EXCEPT !.tr = <<tr>>])

\* the handler's promise resolves with a ToolResult
HandlerReturns(r) ==
  /\ req[r].pc = "handling"
  /\ \E tr \in handlerResults(toolOf(req[r]), parsedArgs(toolOf(req[r]).inputSchema, req[r].args)) :
       req' = [req EXCEPT ![r] = afterHandler(req[r], tr)]
  /\ UNCHANGED <<conn, config, tools, session, listed>>

\* the handler's promise rejects
HandlerRaises(r) ==
  /\ req[r].pc = "handling"
  /\ \E e \in handlerErrors(toolOf(req[r])) :
       req' = [req EXCEPT ![r] = Caught(req[r], e)]
  /\ UNCHANGED <<conn, config, tools, session, listed>>

\* the blocking states after the action of `tool` has run: a tool that
\* clears a kind of state removes the first entry of that kind
clearModalState(tool, stack) ==
  IF tool.clearsModalState = <<>> \/ ~Includes(modalStateTypes(stack), tool.clearsModalState[1])
  THEN stack
  ELSE LET k == CHOOSE i \in DOMAIN stack :
                  /\ stack[i].type = tool.clearsModalState[1]
                  /\ \A j \in DOMAIN stack : stack[j].type = tool.clearsModalState[1] => i <= j
       IN  SubSeq(stack, 1, k - 1) \o SubSeq(stack, k + 1, Len(stack))

\* the deferred action completes
ActionReturns(r) ==
  /\ req[r].pc = "acting"
  /\ session' = [session EXCEPT !.modalStates = clearModalState(toolOf(req[r]), @)]
  /\ req' = [req EXCEPT ![r] = afterAction(req[r])]
  /\ UNCHANGED <<conn, config, tools, listed>>

\* the deferred action raises
ActionRaises(r) ==
  /\ req[r].pc = "acting"
  /\ req' = [req EXCEPT ![r] = Caught(req[r], ActionFailure)]
  /\ UNCHANGED <<conn, config, tools, session, listed>>

\* the snapshot capture requested after the action is over
SnapshotCaptured(r) ==
  /\ req[r].pc = "capturing"
  /\ req' = [req EXCEPT ![r] = afterAction(req[r])]
  /\ UNCHANGED <<conn, config, tools, session, listed>>

\* the network is quiet
NetworkQuiet(r) ==
  /\ req[r].pc = "waiting"
  /\ req' = [req EXCEPT ![r] = afterAction(req[r])]
  /\ UNCHANGED <<conn, config, tools, session, listed>>

\* the server has sent the response of slot r; the slot takes the next request
Deliver(r) ==
  /\ req[r].pc = "done"
  /\ req' = [req EXCEPT ![r] = IdleReq]
  /\ UNCHANGED <<conn, config, tools, session, listed>>

(***************************************************************************)
(* The session's own transitions.                                          *)
(***************************************************************************)
\* the page opens a dialog or a file chooser
ModalAppears(kind) ==
  /\ session.ok
  /\ Len(session.modalStates) < MaxModal
  /\ session' = [session EXCEPT !.modalStates = Append(@, ModalState(kind))]
  /\ UNCHANGED <<conn, config, tools, req, listed>>

\* the session loses its target: its blocking states can no longer be read
SessionFails ==
  /\ session.ok
  /\ session' = [ok |-> FALSE, modalStates |-> <<>>]
  /\ UNCHANGED <<conn, config, tools, req, listed>>

\* the session has a target again
SessionRecovers ==
  /\ ~session.ok
  /\ session' = [ok |-> TRUE, modalStates |-> <<>>]
  /\ UNCHANGED <<conn, config, tools, req, listed>>

\* the steps of the requests: the two handlers and the executor's awaits
NextRequest ==
  \/ ListTools
  \/ \E r \in DOMAIN req, name \in ToolNames : \E args \in ArgsFor(name) : CallTool(r, name, args)
  \/ \E r \in DOMAIN req : HandlerReturns(r)
  \/ \E r \in DOMAIN req : HandlerRaises(r)
  \/ \E r \in DOMAIN req : ActionReturns(r)
  \/ \E r \in DOMAIN req : ActionRaises(r)
  \/ \E r \in DOMAIN req : SnapshotCaptured(r)
  \/ \E r \in DOMAIN req : NetworkQuiet(r)
  \/ \E r \in DOMAIN req : Deliver(r)

Next ==
  \/ NextRequest
  \/ \E kind \in ModalKinds : ModalAppears(kind)
  \/ SessionFails
  \/ SessionRecovers

Spec == Init /\ [][Next]_vars

(***************************************************************************)
(* Connection.close().                                                     *)
(***************************************************************************)
\* what server.close() and context.close() can be rejected with
TransportFailure == "transport close failed"
TeardownFailure == "browser close failed"

\* close() is entered: server.close() is called and awaited
closeCalled(c) ==
  [c EXCEPT !.pc = "closingServer", !.serverCloseCalls = @ + 1]

closesContextAlways(cfg) == TRUE

\* close() closes the context unless keepBrowserOpen is enabled
closesContext(cfg) == ~cfg.keepBrowserOpen

\* server.close() resolved: close() goes on to the context, which it closes
\* or leaves
serverClosed(c, cfg) ==
  IF closesContext(cfg)
    THEN [c EXCEPT !.pc = "closingContext", !.contextCloseCalls = @ + 1]
    ELSE [c EXCEPT !.pc = "closed"]

serverCloseSuppressed(c, e) ==
  [c EXCEPT !.pc = "closingContext", !.contextCloseCalls = @ + 1]

\* server.close() was rejected with e: the await raises it out of close()
serverCloseFailed(c, e) ==
  [c EXCEPT !.pc = "failed", !.error = <<e>>]

\* context.close() resolved: close() returns
contextClosed(c) ==
  [c EXCEPT !.pc = "closed"]

\* context.close() was rejected with e: the await raises it out of close()
contextCloseFailed(c, e) ==
  [c EXCEPT !.pc = "failed", !.error = <<e>>]

Close ==
  /\ conn.pc = "open"
  /\ conn' = closeCalled(conn)
  /\ UNCHANGED <<config, tools, session, req, listed>>

\* the server closed its transport
ServerClosed ==
  /\ conn.pc = "closingServer"
  /\ conn' = serverClosed([conn EXCEPT !.transport = "closed"], config)
  /\ UNCHANGED <<config, tools, session, req, listed>>

\* the server failed to close its transport
ServerCloseFails ==
  /\ conn.pc = "closingServer"
  /\ conn' = serverCloseFailed([conn EXCEPT !.transport = "closeFailed"], TransportFailure)
  /\ UNCHANGED <<config, tools, session, req, listed>>

\* the context tore the session down
ContextClosed ==
  /\ conn.pc = "closingContext"
  /\ conn' = contextClosed([conn EXCEPT !.context = "closed"])
  /\ UNCHANGED <<config, tools, session, req, listed>>

\* the context failed to tear the session down
ContextCloseFails ==
  /\ conn.pc = "closingContext"
  /\ conn' = contextCloseFailed([conn EXCEPT !.context = "closeFailed"], TeardownFailure)
  /\ UNCHANGED <<config, tools, session, req, listed>>

\* the connections close() is studied on: the default catalog, with
\* keepBrowserOpen enabled and not
InitClose ==
  \E cfg \in Configs : ~cfg.vision /\ cfg.capabilities = <<>> /\ Created(cfg, Slots, <<>>)

NextClose ==
  \/ Next
  \/ Close
  \/ ServerClosed
  \/ ServerCloseFails
  \/ ContextClosed
  \/ ContextCloseFails

SpecClose == InitClose /\ [][NextClose]_vars

(***************************************************************************)
(* A client that pipelines: it sends a request before the response to the  *)
(* previous one has arrived. The page is quiet: the blocking states are    *)
(* those that earlier actions left open, and they change only through the  *)
(* actions of the calls.                                                   *)
(***************************************************************************)
PipelinedSlots == 1..(MaxInFlight + 1)

InitPipelined ==
  \E cfg \in Configs, stack \in Stacks :
    ~cfg.keepBrowserOpen /\ Created(cfg, PipelinedSlots, stack)

SpecPipelined == InitPipelined /\ [][NextRequest]_vars

(***************************************************************************)
(* Properties.                                                             *)
(***************************************************************************)
\* the step in which the CallToolRequestSchema handler takes the request of slot r
GateStep(r) == req[r].pc = "idle" /\ req'[r].pc # "idle"

\* the names of the active set
ActiveNames == {tools[i].name : i \in DOMAIN tools}

\* the active tool a name resolves to
ActiveTool(name) == CHOOSE t \in Range(tools) : t.name = name

\* the kinds on the stack the session reports
KindsOf(stack) == {stack[i].type : i \in DOMAIN stack}

\* the request was answered with an error result and nothing of the tool ran
RejectedUnrun(q) ==
  /\ q.pc = "done" /\ ~q.escaped /\ q.result.isError
  /\ ~q.entered /\ q.handlerCalls = 0 /\ q.actionCalls = 0

\* C1: a call of an active tool that clears blocking states of kind K, taken
\* while the stack the session reports holds no entry of kind K (the empty
\* stack included), returns an error result, and neither the handler nor the
\* action of the tool is invoked.
C1_ClearingToolNeedsItsState ==
  [][\A r \in Slots :
       ( /\ GateStep(r)
         /\ req'[r].name \in ActiveNames
         /\ session.ok
         /\ ActiveTool(req'[r].name).clearsModalState # <<>>
         /\ ActiveTool(req'[r].name).clearsModalState[1] \notin KindsOf(session.modalStates) )
       => RejectedUnrun(req'[r])]_vars

\* C1 witness: browser_handle_dialog was rejected while only a file chooser was open
C1_Witness ==
  \E r \in Slots :
    /\ req[r].name = "browser_handle_dialog"
    /\ RejectedUnrun(req[r])
    /\ req[r].result.content[1].text =
         "The tool \"browser_handle_dialog\" can only be used when there is related modal state present.\n- [File chooser]"

\* C2: a call of an active tool that clears no blocking state, taken while the
\* stack the session reports is not empty, returns an error result whose text
\* says that the tool does not handle the modal state, followed by the
\* rendered blocking states; neither handler nor action is invoked.
C2_OtherToolsBlockedByState ==
  [][\A r \in Slots :
       ( /\ GateStep(r)
         /\ req'[r].name \in ActiveNames
         /\ session.ok
         /\ ActiveTool(req'[r].name).clearsModalState = <<>>
         /\ session.modalStates # <<>> )
       => /\ RejectedUnrun(req'[r])
          /\ req'[r].result.content =
               << [ type |-> "text",
                    text |-> Join(<<"Tool \"" \o req'[r].name \o "\" does not handle the modal state.">>
                                  \o [i \in DOMAIN session.modalStates |->
                                        "- [" \o session.modalStates[i].description \o "]"], "\n") ] >>]_vars

\* C2 witness: browser_click was rejected while a dialog was open
C2_Witness ==
  \E r \in Slots :
    /\ req[r].name = "browser_click"
    /\ RejectedUnrun(req[r])
    /\ req[r].result.content[1].text =
         "Tool \"browser_click\" does not handle the modal state.\n- [\"confirm\" dialog with message \"Sure?\"]"

\* C3: a call is delegated to the executor exactly when the tool is in the
\* active set and either it clears kind K and the stack the session reports
\* has an entry of kind K (entries of other kinds may be present too), or it
\* clears nothing and the stack is empty.
C3_GateAllowsExactlyTheRest ==
  [][\A r \in Slots :
       GateStep(r) =>
         ( req'[r].entered <=>
             /\ req'[r].name \in ActiveNames
             /\ session.ok
             /\ LET clears == ActiveTool(req'[r].name).clearsModalState
                IN  \/ clears # <<>> /\ clears[1] \in KindsOf(session.modalStates)
                    \/ clears = <<>> /\ session.modalStates = <<>> )]_vars

\* C3 witness: browser_handle_dialog was let through while a file chooser and,
\* above it, a dialog were open
C3_Witness ==
  \E r \in Slots :
    /\ req[r].name = "browser_handle_dialog"
    /\ req[r].pc = "handling"
    /\ session.modalStates = <<ModalState("fileChooser"), ModalState("dialog")>>

\* C4: a call of a name that is no tool of the active set returns the single
\* text item 'Tool "<name>" not found' with isError = true; nothing is raised
\* and nothing of any tool is invoked, whatever the session's state.
C4_UnknownToolNotFound ==
  \A r \in Slots :
    (req[r].pc # "idle" /\ req[r].name \notin ActiveNames) =>
      /\ RejectedUnrun(req[r])
      /\ req[r].thrown = <<>>
      /\ req[r].result =
           [ content |-> << [type |-> "text", text |-> "Tool \"" \o req[r].name \o "\" not found"] >>,
             isError |-> TRUE ]

\* C4 witness: "nonexistent" was answered while a dialog was open
C4_Witness ==
  \E r \in Slots :
    /\ req[r].pc = "done"
    /\ req[r].result.content = << [type |-> "text", text |-> "Tool \"nonexistent\" not found"] >>
    /\ session.modalStates # <<>>

\* C5: when a call passed the gate and the handler or the deferred action
\* raised E, the call returns an error result whose single text item is the
\* string form of E, nothing escapes, and the connection still takes
\* listTools requests and, once the response is sent, callTool requests.
C5_RaisedErrorBecomesResult ==
  \A r \in Slots :
    (req[r].pc = "done" /\ req[r].handlerCalls = 1 /\ req[r].thrown # <<>>) =>
      /\ ~req[r].escaped
      /\ req[r].result =
           [ content |-> << [ type |-> "text",
                              text |-> IF req[r].thrown[1].message = ""
                                       THEN req[r].thrown[1].name
                                       ELSE req[r].thrown[1].name \o ": " \o req[r].thrown[1].message ] >>,
             isError |-> TRUE ]
      /\ ENABLED ListTools
      /\ ENABLED Deliver(r)
      /\ ENABLED (Deliver(r) /\ req'[r].pc = "idle")

\* C5 witness: the deferred action of a call raised a TimeoutError
C5_Witness ==
  \E r \in Slots :
    /\ req[r].pc = "done" /\ req[r].actionCalls = 1
    /\ req[r].thrown = <<ActionFailure>>
    /\ req[r].result.content[1].text = "TimeoutError: Timeout 5000ms exceeded."

\* C6: every error raised at any step of callTool, a failing read of the
\* session's blocking states during the gate included, ends as a result with
\* isError = true; none leaves the handler uncaught.
C6_NoErrorEscapes ==
  \A r \in Slots :
    req[r].pc = "done" =>
      /\ ~req[r].escaped
      /\ (req[r].thrown # <<>> => req[r].result.isError)

\* C7: when the handler's ToolResult sets resultOverride, the content callTool
\* returns is the override's content, whatever code, action, captureSnapshot
\* and waitForNetwork are; browser_take_screenshot always sets it.
C7_OverrideReturnedVerbatim ==
  \A r \in Slots :
    (req[r].pc = "done" /\ req[r].tr # <<>>) =>
      /\ req[r].tr[1].resultOverride # <<>> =>
           /\ ~req[r].escaped
           /\ req[r].result.content = req[r].tr[1].resultOverride[1].content
      /\ req[r].name = "browser_take_screenshot" => req[r].tr[1].resultOverride # <<>>

\* C7 witness: browser_take_screenshot returned its 'Screenshot saved to' text
C7_Witness ==
  \E r \in Slots :
    /\ req[r].pc = "done" /\ req[r].name = "browser_take_screenshot"
    /\ req[r].tr # <<>>
    /\ req[r].result.content = << [type |-> "text", text |-> "Screenshot saved to: /output/page.png"] >>

\* C8: when the handler's ToolResult sets resultOverride, the executor returns
\* without running the action, capturing a snapshot or waiting for the
\* network, also when the ToolResult carries an action and captureSnapshot.
C8_OverrideBypassesAction ==
  \A r \in Slots :
    (req[r].tr # <<>> /\ req[r].tr[1].resultOverride # <<>>) =>
      /\ req[r].pc = "done"
      /\ req[r].actionCalls = 0 /\ req[r].snapshotCalls = 0 /\ req[r].networkWaits = 0

\* C8 witness: a returned ToolResult with an override, an action and
\* captureSnapshot = true, as the screenshot tool's
C8_Witness ==
  \E r \in Slots :
    /\ req[r].pc = "done" /\ req[r].name = "browser_take_screenshot"
    /\ req[r].tr # <<>>
    /\ req[r].tr[1].resultOverride # <<>>
    /\ req[r].tr[1].action # <<>> /\ req[r].tr[1].captureSnapshot
    /\ req[r].actionCalls = 0

\* the position of tool t in catalog c
IndexIn(c, t) == CHOOSE i \in DOMAIN c : c[i] = t

\* C9: with no or an empty allow-list the active set is the whole catalog of
\* the mode; otherwise it is exactly the catalog's tools tagged "core" or with
\* a listed capability. It keeps the catalog's order, holds no tool of the
\* other catalog, and is what discovery advertises.
C9_ActiveSetIsFilteredCatalog ==
  LET C == IF config.vision THEN visionTools ELSE snapshotTools
      L == config.capabilities
  IN  /\ (L = <<>> \/ L[1] = <<>>) => tools = C
      /\ (L # <<>> /\ L[1] # <<>>) =>
           Range(tools) = {t \in Range(C) : t.capability = "core" \/ t.capability \in Range(L[1])}
      /\ Range(tools) \subseteq Range(C)
      /\ \A i, j \in DOMAIN tools : i < j => IndexIn(C, tools[i]) < IndexIn(C, tools[j])
      /\ \A t \in Range(tools) : t.catalog = (IF config.vision THEN "vision" ELSE "snapshot")
      /\ listed.last # <<>> =>
           [i \in DOMAIN listed.last[1].tools |-> listed.last[1].tools[i].name]
             = [i \in DOMAIN tools |-> tools[i].name]

\* C9 witness: the allow-list ["pdf"] leaves the three core tools of the
\* snapshot catalog, in catalog order, and discovery advertised them
C9_Witness ==
  /\ ~config.vision /\ config.capabilities = << <<"pdf">> >>
  /\ Len(tools) = 3
  /\ listed.last # <<>>

\* C10: the active set is the one computed at creation; after any requests and
\* any change of the blocking states listTools returns what the first
\* listTools returned, and callTool finds exactly the names it lists.
C10_ActiveSetFixed ==
  /\ Range(tools) =
       LET C == IF config.vision THEN visionTools ELSE snapshotTools
       IN  IF config.capabilities = <<>> \/ config.capabilities[1] = <<>> THEN Range(C)
           ELSE {t \in Range(C) : t.capability = "core" \/ t.capability \in Range(config.capabilities[1])}
  /\ listed.first # <<>> => listed.last = listed.first
  /\ \A r \in Slots :
       (listed.last # <<>> /\ req[r].pc # "idle") =>
         ( (\E i \in DOMAIN listed.last[1].tools : listed.last[1].tools[i].name = req[r].name)
           <=> req[r].result.content # << [type |-> "text", text |-> "Tool \"" \o req[r].name \o "\" not found"] >> )

\* C10 witness: discovery answered while a call was rejected by the gate and a
\* blocking state is present
C10_Witness ==
  \E r \in Slots :
    /\ listed.first # <<>> /\ listed.last = listed.first
    /\ req[r].pc = "done" /\ req[r].result.isError /\ req[r].name \in ActiveNames
    /\ session.modalStates # <<>>

\* C11: listTools returns exactly one entry per tool of the active set, in
\* order; an entry's readOnlyHint is true iff the tool's type is read-only, its
\* destructiveHint is true iff the type is destructive, its openWorldHint is
\* true; no entry has both readOnlyHint and destructiveHint true.
C11_HintsFollowType ==
  listed.last # <<>> =>
    LET entries == listed.last[1].tools IN
    /\ Len(entries) = Len(tools)
    /\ \A i \in DOMAIN tools :
         LET hints == entries[i].annotations IN
         /\ entries[i].name = tools[i].name
         /\ hints.readOnlyHint <=> tools[i].type = "readOnly"
         /\ hints.destructiveHint <=> tools[i].type = "destructive"
         /\ hints.openWorldHint
         /\ ~(hints.readOnlyHint /\ hints.destructiveHint)

\* C11 witness: discovery answered for an active set that holds a read-only
\* and a destructive tool
C11_Witness ==
  /\ listed.last # <<>>
  /\ \E i, j \in DOMAIN tools :
       /\ tools[i].type = "readOnly" /\ listed.last[1].tools[i].annotations.readOnlyHint
       /\ tools[j].type = "destructive" /\ listed.last[1].tools[j].annotations.destructiveHint

\* the executor is running slot r's call: its handler or action is awaited,
\* or the capture or the wait that follows the action
Executing(r) == req[r].pc \in {"handling", "acting", "capturing", "waiting"}

\* C12: at most one tool execution proceeds at a time on a session: the
\* Connection serializes callTool, so a second request that arrives while a
\* call is executing does not enter the executor before that call has finished.
C12_OneExecutionAtATime ==
  \A r1, r2 \in DOMAIN req : (Executing(r1) /\ Executing(r2)) => r1 = r2

\* C13: close() first closes the transport and only after that tears the
\* session down: the teardown is never asked for while the transport is not
\* closed. When close() has returned the session is torn down iff
\* keepBrowserOpen is not enabled, and with keepBrowserOpen enabled the
\* teardown is never asked for.
C13_TransportThenSession ==
  /\ conn.contextCloseCalls > 0 => conn.transport = "closed"
  /\ conn.context # "open" => conn.transport = "closed"
  /\ conn.pc = "closed" =>
       /\ conn.transport = "closed"
       /\ conn.context = "closed" <=> ~config.keepBrowserOpen
  /\ config.keepBrowserOpen => (conn.contextCloseCalls = 0 /\ conn.context = "open")
  /\ conn.serverCloseCalls <= 1 /\ conn.contextCloseCalls <= 1

\* C13 witness: close() returned after it closed the transport and then tore
\* the session down
C13_Witness ==
  ~config.keepBrowserOpen /\ conn.pc = "closed" /\ conn.transport = "closed" /\ conn.context = "closed"

\* C14: close() suppresses no failure. If closing the transport fails, close()
\* fails with that error and the teardown of the session is not attempted; if
\* the teardown fails, close() fails with that error.
C14_CloseFailuresPropagate ==
  /\ conn.transport = "closeFailed" =>
       /\ conn.pc = "failed" /\ conn.error = <<TransportFailure>>
       /\ conn.contextCloseCalls = 0 /\ conn.context = "open"
  /\ conn.context = "closeFailed" =>
       conn.pc = "failed" /\ conn.error = <<TeardownFailure>>
  /\ conn.pc = "closed" => conn.error = <<>>

\* C14 witness: the transport failed to close, close() failed with that error
\* and the teardown was not attempted
C14_Witness ==
  conn.transport = "closeFailed" /\ conn.pc = "failed" /\ conn.contextCloseCalls = 0

\* the arguments of a screenshot call that violate its schema: filename is
\* missing, or exactly one of element and ref is given
InvalidScreenshotCall(q) ==
  /\ q.name = "browser_take_screenshot"
  /\ \/ q.args.filename = <<>>
     \/ (q.args.element = <<>>) # (q.args.ref = <<>>)

\* the violation the error result of q must name
ViolationDetail(q) ==
  IF q.args.filename = <<>> THEN "ZodError: Required: filename"
  ELSE "ZodError: Both element and ref must be provided or neither."

\* C15: a call that passes the gate with arguments that violate the tool's
\* schema (for the screenshot: filename missing, or exactly one of element and
\* ref) returns a result with isError = true that names the violation; the
\* handler and the action are never called for it, no snapshot is captured,
\* and the session is as it was before the call.
C15_InvalidArgumentsRejected ==
  [][\A r \in DOMAIN req :
       (GateStep(r) /\ req'[r].entered /\ InvalidScreenshotCall(req'[r])) =>
         /\ req'[r].pc = "done" /\ ~req'[r].escaped
         /\ req'[r].result = [content |-> << [type |-> "text", text |-> ViolationDetail(req'[r])] >>,
                              isError |-> TRUE]
         /\ req'[r].handlerCalls = 0 /\ req'[r].actionCalls = 0
         /\ req'[r].snapshotCalls = 0 /\ req'[r].networkWaits = 0
         /\ session' = session]_vars

\* C15 witness: a screenshot call with ref and no element was answered with the
\* refinement's message, nothing of the tool having run
C15_Witness ==
  \E r \in DOMAIN req :
    /\ req[r].pc = "done" /\ req[r].entered
    /\ req[r].args.filename # <<>> /\ req[r].args.ref # <<>> /\ req[r].args.element = <<>>
    /\ req[r].result.isError /\ req[r].handlerCalls = 0 /\ req[r].actionCalls = 0

\* C16: for a call whose ToolResult has captureSnapshot = true and whose
\* action is run and succeeds, exactly one snapshot capture is requested from
\* the session: none while the action is awaited, one once the action has
\* completed, and the response exists only after the capture is over.
C16_OneSnapshotAfterAction ==
  \A r \in DOMAIN req :
    (req[r].tr # <<>> /\ req[r].tr[1].captureSnapshot /\ req[r].actionCalls = 1) =>
      /\ req[r].snapshotCalls <= 1
      /\ req[r].pc = "acting" => req[r].snapshotCalls = 0
      /\ req[r].pc \in {"capturing", "waiting"} =>
           (req[r].snapshotCalls = 1 /\ req[r].result = NoResult)
      /\ (req[r].pc = "done" /\ req[r].thrown = <<>>) =>
           (req[r].snapshotCalls = 1 /\ ~req[r].result.isError)

\* C16 witness: a call answered without error after its action ran and one
\* capture followed it
C16_Witness ==
  \E r \in DOMAIN req :
    /\ req[r].pc = "done" /\ req[r].thrown = <<>> /\ ~req[r].result.isError
    /\ req[r].tr # <<>> /\ req[r].tr[1].captureSnapshot
    /\ req[r].actionCalls = 1 /\ req[r].snapshotCalls = 1

\* the gate's rule: a function of the tool and of the stack alone
GateAdmits(tool, stack) ==
  IF tool.clearsModalState = <<>> THEN stack = <<>>
  ELSE tool.clearsModalState[1] \in KindsOf(stack)

\* slot r can take a call of `name` that passes the gate
AdmittedCallEnabled(r, name) ==
  ENABLED (\E args \in ArgsFor(name) : CallTool(r, name, args) /\ req'[r].entered)

\* C17: the gate decides from the tool and the stack the session reports at
\* the moment of the call, whatever calls came before: at any time a free slot
\* has an active tool's call admitted iff the stack satisfies the tool's rule
\* then. A call the gate rejects, or for an unknown tool, runs nothing and
\* leaves the stack, the session, the active set, the connection and every
\* other request unchanged.
C17_GateIsStatelessAndPure ==
  /\ [](\A r \in DOMAIN req : \A i \in DOMAIN tools :
          (req[r].pc = "idle" /\ session.ok) =>
            (AdmittedCallEnabled(r, tools[i].name) <=> GateAdmits(tools[i], session.modalStates)))
  /\ [][\A r \in DOMAIN req :
          (GateStep(r) /\ session.ok /\ ~req'[r].entered) =>
            /\ RejectedUnrun(req'[r])
            /\ session' = session /\ tools' = tools /\ config' = config
            /\ conn' = conn /\ listed' = listed
            /\ \A o \in DOMAIN req \ {r} : req'[o] = req[o]]_vars

\* C17 witness: a call of an active tool was rejected by the gate and the
\* stack that caused the rejection is still there
C17_Witness ==
  \E r \in DOMAIN req :
    /\ RejectedUnrun(req[r]) /\ req[r].name \in ActiveNames
    /\ session.ok /\ session.modalStates # <<>>
    /\ ~GateAdmits(ActiveTool(req[r].name), session.modalStates)

\* C18: once close() has torn the session down, nothing of a tool runs against
\* it: a call that was in flight at the teardown makes no further step of its
\* handler, action, capture or wait, and no call passes from the handler's
\* entry to the executor.
C18_NoRunAfterTeardown ==
  [][conn.context = "closed" =>
       \A r \in DOMAIN req :
         /\ Executing(r) => req'[r] = req[r]
         /\ ~GateStep(r)]_vars

\* the step in which the executor invokes the deferred action of slot r's call
ActionStarts(r) == req[r].actionCalls = 0 /\ req'[r].actionCalls = 1

\* C19: the gate condition that admitted a call still holds when its action
\* is invoked, several requests pending or not: the action of a tool with
\* clearsModalState unset is not invoked while the stack is non-empty, and the
\* action of a tool that clears kind K is not invoked while the stack has no
\* entry of kind K.
C19_GateHoldsWhenActionRuns ==
  [][\A r \in DOMAIN req :
       ActionStarts(r) => GateAdmits(toolOf(req'[r]), session.modalStates)]_vars

\* the files the screenshot handler names in its response
ScreenshotFiles ==
  {outputFile("page.png"), standardizedOutputFile("png"), standardizedOutputFile("jpeg")}

\* the response of q is the non-error text 'Screenshot saved to: <file>'
SaysScreenshotSaved(q) ==
  /\ q.pc = "done" /\ ~q.escaped /\ ~q.result.isError
  /\ \E f \in ScreenshotFiles :
       q.result.content = << [type |-> "text", text |-> "Screenshot saved to: " \o f] >>

\* C20: whenever callTool(browser_take_screenshot) returns the non-error text
\* 'Screenshot saved to: <file>', the screenshot action of that call has been
\* performed exactly once before the response; the handler alone, called once,
\* takes no screenshot.
C20_SavedMeansScreenshotTaken ==
  \A r \in DOMAIN req :
    (req[r].name = "browser_take_screenshot" /\ SaysScreenshotSaved(req[r])) =>
      (req[r].handlerCalls = 1 /\ req[r].actionCalls = 1)

====
